---- MODULE Spec2Model ----
(***************************************************************************)
(* Orchestration engine of Nexus-Docs (src/App.tsx and src/services):      *)
(* the primary scheduler, the execution policies, the swarm consensus      *)
(* merge, the verification agent and the document record store.            *)
(***************************************************************************)
EXTENDS Integers, Sequences, FiniteSets, TLC

(***************************************************************************)
(* Bounds of the model                                                     *)
(***************************************************************************)
\* number of document ids one session may allocate in uploads
MaxDocs == 3
\* number of files one upload may carry
MaxBatch == 2
\* number of entities in one backend answer of the merge specification
MaxEntities == 2
\* number of providers enabled at once in the policy specification
MaxChain == 2

(***************************************************************************)
(* Program constants                                                       *)
(***************************************************************************)
MAX_CONCURRENT_AGENTS == 2
MAX_VERIFYING == 2
maxAttempts == 3

Providers == {"gemini", "openrouter", "lmstudio", "lmstudio2"}

\* String.prototype.toUpperCase on the provider names
ToUpperCase(p) ==
  CASE p = "gemini" -> "GEMINI"
    [] p = "openrouter" -> "OPENROUTER"
    [] p = "lmstudio" -> "LMSTUDIO"
    [] p = "lmstudio2" -> "LMSTUDIO2"
    [] OTHER -> p

\* String.prototype.toLowerCase on the entity names of the model
ToLowerCase(n) ==
  CASE n = "Jane Doe" -> "jane doe"
    [] n = "JANE DOE" -> "jane doe"
    [] n = "Bob" -> "bob"
    [] n = "BOB" -> "bob"
    [] OTHER -> n

\* /senator|president|governor|ambassador|prince/i.test(role)
HighValueRole(role) == role \in {"US Senator", "President", "senator"}

\* /agent|witness|pilot|recruiter|victim/i.test(role)
RelevantRole(role) == role \in {"Pilot", "Witness"}

\* /president|governor|senator|clerk/i.test(role)
PoliticalRole(role) == role \in {"US Senator", "President", "senator", "Clerk"}

(***************************************************************************)
(* Sequence helpers                                                        *)
(***************************************************************************)
Range(s) == {s[i] : i \in 1..Len(s)}

\* Array.prototype.filter
RECURSIVE FilterSeq(_, _)
FilterSeq(s, keep) ==
  IF s = <<>> THEN <<>>
  ELSE IF Head(s) \in keep THEN <<Head(s)>> \o FilterSeq(Tail(s), keep)
       ELSE FilterSeq(Tail(s), keep)

\* [...new Set(s)]: first occurrences, in order
RECURSIVE Dedup(_)
Dedup(s) ==
  IF s = <<>> THEN <<>>
  ELSE LET r == Dedup(SubSeq(s, 1, Len(s) - 1))
       IN IF s[Len(s)] \in Range(r) THEN r ELSE Append(r, s[Len(s)])

\* Array.prototype.flatMap over a sequence of sequences
RECURSIVE Flatten(_)
Flatten(ss) == IF ss = <<>> THEN <<>> ELSE Head(ss) \o Flatten(Tail(ss))

(***************************************************************************)
(* Analysis results                                                        *)
(***************************************************************************)
\* the value of `analysis` before any provider has answered (null)
NoAnalysis ==
  [present |-> FALSE, summary |-> "", entities |-> <<>>, hasEntities |-> FALSE,
   keyInsights |-> <<>>, flaggedPOIs |-> <<>>, processedBy |-> ""]

MkAnalysis(summary, entities, hasEntities, insights, flagged) ==
  [present |-> TRUE, summary |-> summary, entities |-> entities,
   hasEntities |-> hasEntities, keyInsights |-> insights,
   flaggedPOIs |-> flagged, processedBy |-> ""]

Jane == [name |-> "Jane Doe", role |-> "Associate", context |-> "c1", isFamous |-> TRUE]

\* the JSON objects a backend answers with in the system specification
RawPlain == MkAnalysis("Memo.", <<>>, TRUE, <<"i1">>, <<>>)
RawFamous == MkAnalysis("Flight log.", <<Jane>>, TRUE, <<"i2">>, <<"Jane Doe">>)
RawNoSummary == MkAnalysis("", <<>>, TRUE, <<>>, <<>>)
RawNoEntities == MkAnalysis("Note.", <<>>, FALSE, <<>>, <<>>)
RawOutputs == {RawPlain, RawFamous, RawNoSummary, RawNoEntities}

\* an answer whose entity is high-value by its role only
RawSenator ==
  MkAnalysis("Hearing.", <<[name |-> "Bob", role |-> "US Senator", context |-> "c4",
                            isFamous |-> FALSE]>>, TRUE, <<"i3">>, <<>>)

\* the entities a backend reports in the merge specification: one person under
\* two spellings, flagged by one report only, and a second person
MergeEntities ==
  {[name |-> "Jane Doe", role |-> "Associate", context |-> "c1", isFamous |-> FALSE],
   [name |-> "JANE DOE", role |-> "Pilot", context |-> "c2", isFamous |-> TRUE],
   [name |-> "Bob", role |-> "Witness", context |-> "c3", isFamous |-> FALSE]}

\* a backend answer listing the entities es: one insight per entity, every
\* flagged entity among the flagged subjects
MergeAnswer(es) ==
  MkAnalysis("Memo.", es, TRUE,
             [j \in 1..Len(es) |-> es[j].context],
             [j \in 1..Len(es) |-> IF es[j].isFamous THEN es[j].name ELSE "none"])

MergeAnswers ==
  {MergeAnswer(es) : es \in UNION {[1..n -> MergeEntities] : n \in 0..MaxEntities}}

\* the result analyzeDocument returns when the backend call failed
GeminiDegraded ==
  MkAnalysis("Analysis failed or returned invalid JSON.", <<>>, TRUE, <<>>, <<>>)

\* the object analyzeWithOpenRouter / analyzeWithLMStudio build from parsed JSON
Normalise(parsed) ==
  [parsed EXCEPT !.summary = IF parsed.summary = "" THEN "Summary extraction failed."
                             ELSE parsed.summary,
                 !.hasEntities = TRUE]

(***************************************************************************)
(* Swarm consensus (processDocumentAgent, parallel branch)                 *)
(***************************************************************************)
\* successes.flatMap(s => s.data.entities.map(e => ({...e, source})))
AllEntities(successes) ==
  Flatten([i \in 1..Len(successes) |->
    [j \in 1..Len(successes[i].data.entities) |->
      [name |-> successes[i].data.entities[j].name,
       role |-> successes[i].data.entities[j].role,
       context |-> successes[i].data.entities[j].context,
       isFamous |-> successes[i].data.entities[j].isFamous,
       source |-> successes[i].provider]]])

\* entityMap: one entry per lower-cased name, the first occurrence kept,
\* the sources of the later occurrences added to it
RECURSIVE GroupEntities(_)
GroupEntities(es) ==
  IF es = <<>> THEN <<>>
  ELSE LET acc == GroupEntities(SubSeq(es, 1, Len(es) - 1))
           e == es[Len(es)]
           key == ToLowerCase(e.name)
           hit == {k \in 1..Len(acc) : ToLowerCase(acc[k].name) = key}
       IN IF hit = {}
          THEN Append(acc, [name |-> e.name, role |-> e.role, context |-> e.context,
                            isFamous |-> e.isFamous, source |-> e.source,
                            sources |-> {e.source}])
          ELSE [k \in 1..Len(acc) |->
                 IF k \in hit THEN [acc[k] EXCEPT !.sources = @ \cup {e.source}]
                 ELSE acc[k]]

SwarmTag(e) ==
  IF Cardinality(e.sources) > 1 THEN "[SWARM CONFIRMED]: " \o e.context ELSE e.context

\* a merge that trusts only the flag of the first report
SwarmFamous_OwnFlag(e) == e.isFamous

\* isFamous: e.isFamous || e.sources.size > 1
SwarmFamous(e) == e.isFamous \/ Cardinality(e.sources) > 1

ConsolidatedEntities(successes) ==
  LET g == GroupEntities(AllEntities(successes))
  IN [k \in 1..Len(g) |->
       [g[k] EXCEPT !.context = SwarmTag(g[k]), !.isFamous = SwarmFamous(g[k])]]

\* successes.map(s => `[${s.provider.toUpperCase()}]: ${s.data.summary}`).join('\n\n')
RECURSIVE SwarmSummary(_)
SwarmSummary(successes) ==
  IF successes = <<>> THEN ""
  ELSE LET one == "[" \o ToUpperCase(Head(successes).provider) \o "]: "
                  \o Head(successes).data.summary
       IN IF Len(successes) = 1 THEN one
          ELSE one \o "\n\n" \o SwarmSummary(Tail(successes))

\* successes.map(s => s.provider).join('+')
RECURSIVE JoinProviders(_)
JoinProviders(ps) ==
  IF ps = <<>> THEN ""
  ELSE IF Len(ps) = 1 THEN Head(ps)
       ELSE Head(ps) \o "+" \o JoinProviders(Tail(ps))

SuccessProviders(successes) == [i \in 1..Len(successes) |-> successes[i].provider]

\* s.data.entities.map throws a TypeError when a result carries no entities
MergeThrows(successes) ==
  \E i \in 1..Len(successes) : ~successes[i].data.hasEntities

SwarmMerge(successes) ==
  [present |-> TRUE,
   summary |-> SwarmSummary(successes),
   entities |-> ConsolidatedEntities(successes),
   hasEntities |-> TRUE,
   keyInsights |-> Dedup(Flatten([i \in 1..Len(successes) |-> successes[i].data.keyInsights])),
   flaggedPOIs |-> Dedup(Flatten([i \in 1..Len(successes) |-> successes[i].data.flaggedPOIs])),
   processedBy |-> "Swarm (" \o JoinProviders(SuccessProviders(successes)) \o ")"]

(***************************************************************************)
(* State                                                                   *)
(***************************************************************************)
VARIABLES
  config,             \* state.config
  documents,          \* state.documents, a sequence of records
  processingQueue,    \* state.processingQueue, a sequence of ids
  pois,               \* state.pois
  activeAgentsCount,  \* the useState counter of primary workers
  verifyingIds,       \* the useState list of ids under verification
  fileStore,          \* the ids that have a blob in the module-level fileStore
  agents,             \* the processDocumentAgent calls in flight
  verifiers,          \* the processVerificationAgent calls in flight
  db,                 \* the records of the document record store
  mountDocs,          \* what getDocuments() read when the component mounted
  loading,            \* loadDocs has not delivered yet
  staged,             \* ids of an upload whose files are being read
  wiping,             \* resetArchive is waiting for clearDocuments()
  nextId              \* the next fresh document id

vars == <<config, documents, processingQueue, pois, activeAgentsCount, verifyingIds,
          fileStore, agents, verifiers, db, mountDocs, loading, staged, wiping,
          nextId>>

NoId == 0 - 1

\* history of the last primary run of a document: the policy it ran under, the
\* chain it read, per chain position the last answer of the backend and how the
\* provider's call settled, and the fulfilled (provider, result) pairs
NoRun ==
  [mode |-> "none", chain |-> <<>>, backend |-> <<>>, settled |-> <<>>, results |-> <<>>,
   attempts |-> <<>>, texts |-> <<>>, parsed |-> <<>>]

\* the history variable of document id is set; no field of the program changes
RecordRun(docs, id, run) ==
  [i \in 1..Len(docs) |-> IF docs[i].id = id THEN [docs[i] EXCEPT !.run = run] ELSE docs[i]]

NewDoc(id) ==
  [id |-> id, status |-> "pending", analysis |-> NoAnalysis, lineage |-> <<>>,
   contentBlob |-> FALSE, run |-> NoRun]

DocIdsOf(docs) == {docs[i].id : i \in 1..Len(docs)}

\* documents.find(d => d.id === id); NoId-record when absent
HasDoc(docs, id) == \E i \in 1..Len(docs) : docs[i].id = id

FindDoc(docs, id) == docs[CHOOSE i \in 1..Len(docs) :
                            docs[i].id = id /\ \A j \in 1..(i - 1) : docs[j].id # id]

\* documents.map(d => d.id === id ? rec : d)
ReplaceDoc(docs, id, rec) == [i \in 1..Len(docs) |-> IF docs[i].id = id THEN rec ELSE docs[i]]

\* updateDocStatus
updateDocStatus(docs, id, status) ==
  [i \in 1..Len(docs) |-> IF docs[i].id = id THEN [docs[i] EXCEPT !.status = status]
                          ELSE docs[i]]

StatusOf(id) == IF HasDoc(documents, id) THEN FindDoc(documents, id).status ELSE "absent"

\* config.priority.filter(p => config.enabled[p])
ActiveChain(cfg) == FilterSeq(cfg.priority, cfg.enabled)

\* saveDocument(record): put by id
saveDocument(store, rec) == {r \in store : r.id # rec.id} \cup {rec}

\* a capacity test that counts the documents under verification as well
HasCapacity_SharedPool(count) == count + Len(verifyingIds) < MAX_CONCURRENT_AGENTS

\* activeAgentsCount < MAX_CONCURRENT_AGENTS
HasCapacity(count) == count < MAX_CONCURRENT_AGENTS

\* a main effect that dispatches whenever the queue is non-empty
MainEffect_NoCap(docs, queue, count) ==
  IF Len(docs) = 0 /\ Len(queue) > 0 THEN NoId
  ELSE IF Len(queue) > 0 THEN queue[1]
  ELSE NoId

\* the main processing effect: the id its timer will hand to processDocumentAgent
MainEffect(docs, queue, count) ==
  IF Len(docs) = 0 /\ Len(queue) > 0 THEN NoId
  ELSE IF Len(queue) > 0 /\ HasCapacity(count) THEN queue[1]
  ELSE NoId

\* the verification effect: the first document in status verifying that is not
\* being verified, when fewer than two are
VerificationCandidates(docs, ids) ==
  {i \in 1..Len(docs) : docs[i].status = "verifying" /\ docs[i].id \notin Range(ids)}

\* a verification effect that starts an agent for every candidate
VerificationEffect_NoCap(docs, ids) ==
  LET c == VerificationCandidates(docs, ids)
  IN IF c # {}
     THEN docs[CHOOSE i \in c : \A j \in c : i <= j].id
     ELSE NoId

VerificationEffect(docs, ids) ==
  LET c == VerificationCandidates(docs, ids)
  IN IF c # {} /\ Len(ids) < MAX_VERIFYING
     THEN docs[CHOOSE i \in c : \A j \in c : i <= j].id
     ELSE NoId

(***************************************************************************)
(* Tracked subjects (the state updater of processDocumentAgent)            *)
(***************************************************************************)
\* a lookup that compares the names as they are written
PoiIndex_CaseSensitive(ps, name) == {k \in 1..Len(ps) : ps[k].name = name}

\* updatedPois.find(p => p.name.toLowerCase() === e.name.toLowerCase())
PoiIndex(ps, name) ==
  {k \in 1..Len(ps) : ToLowerCase(ps[k].name) = ToLowerCase(name)}

\* a test that never finds the document among the mentions
HasMention_Never(poi, docId) == FALSE

\* existing.mentions.some(m => m.docId === docId)
HasMention(poi, docId) == \E m \in 1..Len(poi.mentions) : poi.mentions[m].docId = docId

PromoteEntity(ps, e, docId) ==
  LET hit == PoiIndex(ps, e.name)
      isRelevant == e.isFamous \/ RelevantRole(e.role) \/ hit # {}
      mention == [docId |-> docId, context |-> e.context]
  IN IF ~isRelevant THEN ps
     ELSE IF hit # {}
          THEN LET k == CHOOSE i \in hit : \A j \in hit : i <= j
               IN IF HasMention(ps[k], docId)
                  THEN ps
                  ELSE [ps EXCEPT ![k].mentions = Append(@, mention)]
          ELSE Append(ps, [name |-> e.name, mentions |-> <<mention>>,
                           isPolitical |-> e.isFamous /\ PoliticalRole(e.role)])

RECURSIVE AggregatePois(_, _, _)
AggregatePois(ps, entities, docId) ==
  IF entities = <<>> THEN ps
  ELSE AggregatePois(PromoteEntity(ps, Head(entities), docId), Tail(entities), docId)

\* analysis.entities.find(e => e.isFamous || /senator|.../i.test(e.role)) exists
HasHighValueTarget(analysis) ==
  \E j \in 1..Len(analysis.entities) :
    analysis.entities[j].isFamous \/ HighValueRole(analysis.entities[j].role)

HighValueTarget(analysis) ==
  analysis.entities[CHOOSE j \in 1..Len(analysis.entities) :
    /\ analysis.entities[j].isFamous \/ HighValueRole(analysis.entities[j].role)
    /\ \A k \in 1..(j - 1) :
         ~(analysis.entities[k].isFamous \/ HighValueRole(analysis.entities[k].role))]

(***************************************************************************)
(* Response texts and their recovery (the three services)                  *)
(***************************************************************************)
\* A response text is a sequence of pieces: "T" is prose without special
\* characters, "{" and "}" are braces, "F" is a ``` fence, "J" is the word json,
\* "M" is a member "summary": "Memo.", "Mo" opens a member whose value is a
\* string, "Mc" is the quote that closes it, "<think>" and "</think>" are the
\* reasoning tags; white space between pieces is not represented
NoObject == <<>>

\* the first index from `from` on at which s holds tok, 0 when there is none
FirstAt(s, tok, from) ==
  LET hits == {i \in from..Len(s) : s[i] = tok}
  IN IF hits = {} THEN 0 ELSE CHOOSE i \in hits : \A j \in hits : i <= j

LastAt(s, tok) ==
  LET hits == {i \in 1..Len(s) : s[i] = tok}
  IN IF hits = {} THEN 0 ELSE CHOOSE i \in hits : \A j \in hits : j <= i

\* the members of a JSON object: a string value ends at the first quote
RECURSIVE IsMembers(_)
IsMembers(s) ==
  IF s = <<>> THEN TRUE
  ELSE IF s[1] = "M" THEN IsMembers(Tail(s))
  ELSE IF s[1] = "Mo"
       THEN LET j == FirstAt(s, "Mc", 2)
            IN j # 0 /\ IsMembers(SubSeq(s, j + 1, Len(s)))
       ELSE FALSE

\* JSON.parse(s) returns an object (and does not throw)
IsObject(s) ==
  /\ Len(s) >= 2
  /\ s[1] = "{"
  /\ s[Len(s)] = "}"
  /\ IsMembers(SubSeq(s, 2, Len(s) - 1))

\* responseContent.replace(/<think>[\s\S]*?<\/think>/g, "")
RECURSIVE StripThink(_)
StripThink(s) ==
  LET i == FirstAt(s, "<think>", 1)
      j == IF i = 0 THEN 0 ELSE FirstAt(s, "</think>", i + 1)
  IN IF j = 0 THEN s
     ELSE SubSeq(s, 1, i - 1) \o StripThink(SubSeq(s, j + 1, Len(s)))

\* cleanedContent.match(/```(?:json)?\s*([\s\S]*?)\s*```/): the capture, from
\* the first fence (and its json tag) to the next fence; s when nothing matches
FenceCapture(s) ==
  LET i == FirstAt(s, "F", 1)
      j == IF i = 0 THEN 0 ELSE FirstAt(s, "F", i + 1)
      tag == IF i # 0 /\ i + 1 < j /\ s[i + 1] = "J" THEN 1 ELSE 0
  IN IF j = 0 THEN s ELSE SubSeq(s, i + 1 + tag, j - 1)

\* the substring from the first "{" to the last "}", parsed
BraceFallback(s) ==
  LET a == FirstAt(s, "{", 1)
      b == LastAt(s, "}")
  IN IF a # 0 /\ b # 0 /\ b > a /\ IsObject(SubSeq(s, a, b))
     THEN SubSeq(s, a, b) ELSE NoObject

\* the parsing steps of analyzeWithLMStudio
textParser(responseContent) ==
  LET cleanedContent == FenceCapture(StripThink(responseContent))
  IN IF IsObject(cleanedContent) THEN cleanedContent ELSE BraceFallback(cleanedContent)

\* text.replace(/```json\n?|```/g, '').trim()
RECURSIVE cleanJsonResponse(_)
cleanJsonResponse(text) ==
  IF text = <<>> THEN <<>>
  ELSE IF text[1] = "F"
       THEN IF Len(text) > 1 /\ text[2] = "J" THEN cleanJsonResponse(SubSeq(text, 3, Len(text)))
            ELSE cleanJsonResponse(Tail(text))
       ELSE <<text[1]>> \o cleanJsonResponse(Tail(text))

\* the object a provider gets out of a response text, NoObject when its
\* parsing fails: analyzeDocument parses the text as it is, analyzeWithOpenRouter
\* after cleanJsonResponse, analyzeWithLMStudio with its recovery steps
Recover(p, text) ==
  IF p = "gemini" THEN (IF IsObject(text) THEN text ELSE NoObject)
  ELSE IF p = "openrouter"
       THEN (IF IsObject(cleanJsonResponse(text)) THEN cleanJsonResponse(text) ELSE NoObject)
       ELSE textParser(text)

\* the parsed object as the program reads it: its summary when it has the
\* member, no other key
ObjectAnalysis(obj) ==
  MkAnalysis(IF "M" \in Range(obj) THEN "Memo." ELSE "", <<>>, FALSE, <<>>, <<>>)

(***************************************************************************)
(* Provider calls (runProvider and the three services)                     *)
(***************************************************************************)
\* the text of a backend answer that is not JSON
RawText == "not json"

\* the result analyzeWithLMStudio returns when no parsing step found JSON
LMStudioDegraded == MkAnalysis(RawText, <<>>, TRUE, <<RawText>>, <<>>)

\* a backend that answers with text no parsing step turns into JSON
Unparseable == [kind |-> "unparseable", raw |-> NoAnalysis]

\* what the backend of one call attempt does: answer with JSON, fail with a
\* rate-limit/unavailable error (429/503), or fail with any other error
BackendResponses ==
  {[kind |-> "ok", raw |-> r] : r \in RawOutputs}
    \cup {[kind |-> "transient", raw |-> NoAnalysis], [kind |-> "permanent", raw |-> NoAnalysis]}

\* a call of runProvider; text and parsed are history: the last response text
\* the backend sent and the object the provider got out of it
IdleCall ==
  [st |-> "idle", attempts |-> 0, data |-> NoAnalysis, backend |-> "none",
   text |-> <<>>, parsed |-> NoObject]
PendingCall ==
  [st |-> "pending", attempts |-> 0, data |-> NoAnalysis, backend |-> "none",
   text |-> <<>>, parsed |-> NoObject]

\* a retry loop that starts counting again instead of giving up
GeminiStep_RetryForever(call, resp) ==
  IF resp.kind = "ok"
  THEN [call EXCEPT !.st = "fulfilled", !.data = resp.raw, !.backend = "ok"]
  ELSE IF resp.kind = "transient"
  THEN [call EXCEPT !.attempts = (@ + 1) % maxAttempts, !.backend = "fail"]
  ELSE [call EXCEPT !.st = "fulfilled", !.data = GeminiDegraded,
                    !.backend = IF resp.kind = "unparseable" THEN "unparsed" ELSE "fail"]

\* analyzeDocument: the retry loop on 429/503 and the catch that turns every
\* failure into a result
GeminiStep(call, resp) ==
  IF resp.kind = "ok"
  THEN [call EXCEPT !.st = "fulfilled", !.data = resp.raw, !.backend = "ok"]
  ELSE IF resp.kind = "transient" /\ call.attempts + 1 < maxAttempts
  THEN [call EXCEPT !.attempts = @ + 1, !.backend = "fail"]
  ELSE [call EXCEPT !.st = "fulfilled", !.data = GeminiDegraded,
                    !.backend = IF resp.kind = "unparseable" THEN "unparsed" ELSE "fail",
                    !.attempts = IF resp.kind = "transient" THEN @ + 1 ELSE @]

\* analyzeWithOpenRouter, and analyzeWithLMStudio on anything but unparseable
\* text: one attempt, errors are thrown
ThrowingStep(call, resp) ==
  IF resp.kind = "ok"
  THEN [call EXCEPT !.st = "fulfilled", !.data = Normalise(resp.raw), !.backend = "ok"]
  ELSE [call EXCEPT !.st = "rejected",
                    !.backend = IF resp.kind = "unparseable" THEN "unparsed" ELSE "fail"]

\* analyzeWithLMStudio: text that is not JSON becomes the fallback result
LMStudioStep(call, resp) ==
  IF resp.kind = "unparseable"
  THEN [call EXCEPT !.st = "fulfilled", !.data = LMStudioDegraded, !.backend = "unparsed"]
  ELSE ThrowingStep(call, resp)

\* a response that carries a text, as the provider's parsing delivers it
Delivered(p, resp) ==
  IF resp.kind # "text" THEN resp
  ELSE IF Recover(p, resp.text) = NoObject THEN Unparseable
  ELSE [kind |-> "ok", raw |-> ObjectAnalysis(Recover(p, resp.text))]

\* runProvider: the state of a call after one backend response
ProviderStep(p, call, resp) ==
  LET r == Delivered(p, resp)
      c == IF resp.kind = "text"
           THEN [call EXCEPT !.text = resp.text, !.parsed = Recover(p, resp.text)]
           ELSE call
  IN IF p = "gemini" THEN GeminiStep(c, r)
     ELSE IF p = "openrouter" THEN ThrowingStep(c, r)
     ELSE LMStudioStep(c, r)

Settled(call) == call.st \in {"fulfilled", "rejected"}

(***************************************************************************)
(* Execution policies (processDocumentAgent, after extraction)             *)
(***************************************************************************)
\* the sequential loop stops at call k when it returned a summary
SeqWins(calls, k) == calls[k].st = "fulfilled" /\ calls[k].data.summary # ""

\* `analysis` after the sequential loop: the last value a call returned
SeqAnalysis(calls, k) ==
  LET got == {j \in 1..k : calls[j].st = "fulfilled"}
  IN IF got = {} THEN NoAnalysis
     ELSE calls[CHOOSE j \in got : \A h \in got : h <= j].data

\* results.filter(r => r.status === 'fulfilled').map(r => r.value)
RECURSIVE Successes(_, _)
Successes(chain, calls) ==
  IF chain = <<>> THEN <<>>
  ELSE LET rest == Successes(Tail(chain), Tail(calls))
       IN IF Head(calls).st = "fulfilled"
          THEN <<[provider |-> Head(chain), data |-> Head(calls).data]>> \o rest
          ELSE rest

BackendLog(calls) == [k \in 1..Len(calls) |-> calls[k].backend]

SettledLog(calls) == [k \in 1..Len(calls) |-> calls[k].st]

\* the failed attempts the retry loop of each call has counted
AttemptsLog(calls) == [k \in 1..Len(calls) |-> calls[k].attempts]

\* the outcome of the policy once its calls are over: either it threw, or it
\* left analysis, lineage and finalProvider
SeqOutcome(w, calls, k) ==
  LET a == SeqAnalysis(calls, k)
  IN [threw |-> ~a.present,
      analysis |-> [a EXCEPT !.processedBy = IF SeqWins(calls, k) THEN w.chain[k] ELSE ""],
      lineage |-> SubSeq(w.chain, 1, k),
      calls |-> calls]

ParOutcome(w, calls) ==
  LET s == Successes(w.chain, calls)
  IN IF Len(s) = 0 \/ MergeThrows(s)
     THEN [threw |-> TRUE, analysis |-> NoAnalysis, lineage |-> <<>>, calls |-> calls]
     ELSE [threw |-> FALSE,
           analysis |-> [SwarmMerge(s) EXCEPT !.processedBy = "Parallel Swarm"],
           lineage |-> SuccessProviders(s),
           calls |-> calls]

\* the double-take test: which status the document gets, or a TypeError when
\* the analysis has no entity list to search
DoubleTakeThrows(w, analysis) == w.dual /\ ~analysis.hasEntities

NextStatus(w, analysis) ==
  IF w.dual /\ HasHighValueTarget(analysis) THEN "verifying" ELSE "completed"

RemoveAt(s, i) == SubSeq(s, 1, i - 1) \o SubSeq(s, i + 1, Len(s))

(***************************************************************************)
(* Initial states                                                          *)
(***************************************************************************)
DefaultPriority == <<"gemini", "openrouter", "lmstudio", "lmstudio2">>
ReversePriority == <<"lmstudio2", "lmstudio", "openrouter", "gemini">>

\* SettingsView.save accepts a configuration only with one of these enabled
SaveAccepts(enabled) == enabled \cap {"gemini", "openrouter", "lmstudio"} # {}

MkConfig(priority, enabled, parallel, dual, verifier) ==
  [priority |-> priority, enabled |-> enabled, parallelAnalysis |-> parallel,
   dualCheckMode |-> dual, preferredVerifier |-> verifier]

\* a record an earlier session left in the store
StoredDoc(id, status) ==
  [id |-> id, status |-> status,
   analysis |-> [RawFamous EXCEPT !.processedBy = "gemini"],
   lineage |-> <<"gemini">>, contentBlob |-> TRUE,
   run |-> [mode |-> "seq", chain |-> <<"gemini">>, backend |-> <<"ok">>,
            settled |-> <<"fulfilled">>,
            results |-> <<[provider |-> "gemini", data |-> RawFamous]>>,
            attempts |-> <<0>>, texts |-> <<<<>>>>, parsed |-> <<NoObject>>]]

StoredChoices == {<<>>, <<StoredDoc(0, "verifying")>>}

\* the state once the component is mounted; with nothing stored, loadDocs
\* changes nothing and a specification may start after it has delivered
InitWith(cfgs, stored, loads) ==
  /\ config \in cfgs
  /\ mountDocs \in stored
  /\ loading \in loads
  /\ db = Range(mountDocs)
  /\ documents = <<>>
  /\ processingQueue = <<>>
  /\ pois = <<>>
  /\ activeAgentsCount = 0
  /\ verifyingIds = <<>>
  /\ fileStore = {}
  /\ agents = <<>>
  /\ verifiers = <<>>
  /\ staged = <<>>
  /\ wiping = FALSE
  /\ nextId = 1

(***************************************************************************)
(* Mount, upload, retry-all, wipe                                          *)
(***************************************************************************)
\* loadDocs: getDocuments() resolves
LoadDocs ==
  /\ loading
  /\ loading' = FALSE
  /\ IF Len(mountDocs) > 0
     THEN /\ documents' = mountDocs
          /\ fileStore' = fileStore \cup {mountDocs[i].id : i \in
                              {j \in 1..Len(mountDocs) : mountDocs[j].contentBlob}}
     ELSE UNCHANGED <<documents, fileStore>>
  /\ UNCHANGED <<config, processingQueue, pois, activeAgentsCount, verifyingIds, agents,
                 verifiers, db, mountDocs, staged, wiping, nextId>>

\* handleFileUpload, up to its setState: ids are drawn and the blobs stored
UploadRead(k, cap) ==
  /\ staged = <<>>
  /\ nextId + k - 1 <= cap
  /\ staged' = [j \in 1..k |-> nextId + j - 1]
  /\ fileStore' = fileStore \cup {nextId + j - 1 : j \in 1..k}
  /\ nextId' = nextId + k
  /\ UNCHANGED <<config, documents, processingQueue, pois, activeAgentsCount, verifyingIds,
                 agents, verifiers, db, mountDocs, loading, wiping>>

\* an upload that puts its documents in front of the waiting ones
Enqueue_AtHead(queue, ids) == ids \o queue

\* [...prev.processingQueue, ...queueIds]
Enqueue(queue, ids) == queue \o ids

\* handleFileUpload, its setState: the documents and the queue grow
UploadCommit ==
  /\ staged # <<>>
  /\ documents' = documents \o [j \in 1..Len(staged) |-> NewDoc(staged[j])]
  /\ processingQueue' = Enqueue(processingQueue, staged)
  /\ staged' = <<>>
  /\ UNCHANGED <<config, pois, activeAgentsCount, verifyingIds, fileStore, agents,
                 verifiers, db, mountDocs, loading, wiping, nextId>>

\* a retry-all that also takes the finished documents
RetryTargets_All(docs) ==
  LET idx == {i \in 1..Len(docs) : docs[i].status \in {"error", "pending", "completed"}}
  IN FilterSeq([i \in 1..Len(docs) |-> docs[i].id], {docs[i].id : i \in idx})

\* state.documents.filter(d => d.status === 'error' || d.status === 'pending').map(d => d.id)
RetryTargets(docs) ==
  LET idx == {i \in 1..Len(docs) : docs[i].status \in {"error", "pending"}}
  IN FilterSeq([i \in 1..Len(docs) |-> docs[i].id], {docs[i].id : i \in idx})

\* a re-queue that appends the targets without looking at the queue
Requeue_NoDedup(queue, targets) == queue \o targets

\* [...new Set([...prev.processingQueue, ...targetIds])]
Requeue(queue, targets) == Dedup(queue \o targets)

restartAnalysis ==
  /\ RetryTargets(documents) # <<>>
  /\ processingQueue' = Requeue(processingQueue, RetryTargets(documents))
  /\ UNCHANGED <<config, documents, pois, activeAgentsCount, verifyingIds, fileStore,
                 agents, verifiers, db, mountDocs, loading, staged, wiping, nextId>>

\* resetArchive up to `await clearDocuments()`
ResetArchiveBegin ==
  /\ ~wiping
  /\ wiping' = TRUE
  /\ fileStore' = {}
  /\ UNCHANGED <<config, documents, processingQueue, pois, activeAgentsCount, verifyingIds,
                 agents, verifiers, db, mountDocs, loading, staged, nextId>>

\* resetArchive after clearDocuments() resolved
ResetArchiveEnd ==
  /\ wiping
  /\ wiping' = FALSE
  /\ db' = {}
  /\ documents' = <<>>
  /\ pois' = <<>>
  /\ processingQueue' = <<>>
  /\ UNCHANGED <<config, activeAgentsCount, verifyingIds, fileStore, agents, verifiers,
                 mountDocs, loading, staged, nextId>>

(***************************************************************************)
(* processDocumentAgent                                                    *)
(***************************************************************************)
NewAgent(docId) ==
  [docId |-> docId, pc |-> "extract", mode |-> "none", chain |-> <<>>, dual |-> FALSE,
   calls |-> <<>>, idx |-> 0]

\* a dispatch that leaves the id in the queue until the worker completes
QueueWithout_AtCompletion(queue, docId) == queue

\* processingQueue.filter(id => id !== docId)
QueueWithout(queue, docId) == FilterSeq(queue, Range(queue) \ {docId})

\* an early return that forgets its decrement
EarlyExitCount_Leak(count) == count + 1

\* the counter after a worker that found no document or no blob: the
\* increment at its start and the decrement before its return
EarlyExitCount(count) == (count + 1) - 1

\* the timer of the main effect fires: the worker starts, up to its first await
StartAgent ==
  LET docId == MainEffect(documents, processingQueue, activeAgentsCount)
  IN /\ docId # NoId
     /\ processingQueue' = QueueWithout(processingQueue, docId)
     /\ IF ~HasDoc(documents, docId) \/ docId \notin fileStore
        THEN /\ activeAgentsCount' = EarlyExitCount(activeAgentsCount)
             /\ UNCHANGED <<documents, agents>>
        ELSE /\ activeAgentsCount' = activeAgentsCount + 1
             /\ documents' = updateDocStatus(documents, docId, "processing")
             /\ agents' = Append(agents, NewAgent(docId))
     /\ UNCHANGED <<config, pois, verifyingIds, fileStore, verifiers, db, mountDocs,
                    loading, staged, wiping, nextId>>

\* the worker ends: the catch block, or the state updater with the result,
\* and in both cases the finally block
AgentEnds(i, outcome) ==
  LET w == agents[i]
      threw == outcome.threw \/ DoubleTakeThrows(w, outcome.analysis)
      run == [mode |-> w.mode, chain |-> w.chain, backend |-> BackendLog(outcome.calls),
              settled |-> SettledLog(outcome.calls),
              results |-> Successes(w.chain, outcome.calls),
              attempts |-> AttemptsLog(outcome.calls),
              texts |-> [k \in 1..Len(outcome.calls) |-> outcome.calls[k].text],
              parsed |-> [k \in 1..Len(outcome.calls) |-> outcome.calls[k].parsed]]
      updatedDoc ==
        [id |-> w.docId, status |-> NextStatus(w, outcome.analysis),
         analysis |-> outcome.analysis, lineage |-> outcome.lineage,
         contentBlob |-> TRUE, run |-> run]
  IN /\ agents' = RemoveAt(agents, i)
     /\ activeAgentsCount' = activeAgentsCount - 1
     /\ IF threw
        THEN /\ documents' = RecordRun(updateDocStatus(documents, w.docId, "error"),
                                       w.docId, run)
             /\ UNCHANGED <<pois, db>>
        ELSE /\ pois' = IF outcome.analysis.hasEntities
                        THEN AggregatePois(pois, outcome.analysis.entities, w.docId)
                        ELSE pois
             /\ db' = saveDocument(db, updatedDoc)
             /\ documents' = ReplaceDoc(documents, w.docId, updatedDoc)
     /\ UNCHANGED <<config, processingQueue, verifyingIds, fileStore, verifiers, mountDocs,
                    loading, staged, wiping, nextId>>

Threw == [threw |-> TRUE, analysis |-> NoAnalysis, lineage |-> <<>>, calls |-> <<>>]

\* processPdf settles; on success the worker reads the configuration and
\* issues the first call(s) of its policy
ExtractDone(i, ok) ==
  LET w == agents[i]
      chain == ActiveChain(config)
      parallel == config.parallelAnalysis /\ Len(chain) > 1
  IN /\ w.pc = "extract"
     /\ IF ~ok \/ Len(chain) = 0
        THEN AgentEnds(i, Threw)
        ELSE /\ agents' = [agents EXCEPT ![i] =
                  [w EXCEPT !.pc = "policy",
                            !.mode = IF parallel THEN "par" ELSE "seq",
                            !.chain = chain,
                            !.dual = config.dualCheckMode,
                            !.idx = IF parallel THEN 0 ELSE 1,
                            !.calls = [k \in 1..Len(chain) |->
                                        IF parallel \/ k = 1 THEN PendingCall ELSE IdleCall]]]
             /\ UNCHANGED <<config, documents, processingQueue, pois, activeAgentsCount,
                            verifyingIds, fileStore, verifiers, db, mountDocs, loading,
                            staged, wiping, nextId>>

\* the backend of call k of worker i responds
BackendResponds(i, k, resp) ==
  LET w == agents[i]
      call == ProviderStep(w.chain[k], w.calls[k], resp)
      calls == [w.calls EXCEPT ![k] = call]
  IN /\ w.pc = "policy"
     /\ w.calls[k].st = "pending"
     /\ IF ~Settled(call)
        THEN /\ agents' = [agents EXCEPT ![i].calls = calls]
             /\ UNCHANGED <<config, documents, processingQueue, pois, activeAgentsCount,
                            verifyingIds, fileStore, verifiers, db, mountDocs, loading,
                            staged, wiping, nextId>>
        ELSE IF w.mode = "par"
        THEN IF \A j \in 1..Len(calls) : Settled(calls[j])
             THEN AgentEnds(i, ParOutcome(w, calls))
             ELSE /\ agents' = [agents EXCEPT ![i].calls = calls]
                  /\ UNCHANGED <<config, documents, processingQueue, pois,
                                 activeAgentsCount, verifyingIds, fileStore, verifiers, db,
                                 mountDocs, loading, staged, wiping, nextId>>
        ELSE IF SeqWins(calls, k) \/ k = Len(w.chain)
        THEN AgentEnds(i, SeqOutcome(w, calls, k))
        ELSE /\ agents' = [agents EXCEPT ![i].calls = [calls EXCEPT ![k + 1] = PendingCall],
                                         ![i].idx = k + 1]
             /\ UNCHANGED <<config, documents, processingQueue, pois, activeAgentsCount,
                            verifyingIds, fileStore, verifiers, db, mountDocs, loading,
                            staged, wiping, nextId>>

(***************************************************************************)
(* processVerificationAgent and the verification effect                    *)
(***************************************************************************)
\* the verifier: the preferred one when enabled, else the head of the chain
ChooseVerifier(cfg) ==
  IF cfg.preferredVerifier # "auto" /\ cfg.preferredVerifier \in cfg.enabled
  THEN cfg.preferredVerifier
  ELSE IF Len(ActiveChain(cfg)) > 0 THEN ActiveChain(cfg)[1] ELSE "gemini"

ConfirmText(verifier, name) ==
  "\n\n[VERIFICATION]: " \o verifier \o " confirms presence of " \o name
    \o " (Web Grounding: " \o (IF verifier = "gemini" THEN "Enabled" ELSE "N/A") \o ")."

DenyText(verifier, name) ==
  "\n\n[VERIFICATION]: " \o verifier \o " could NOT verify " \o name \o "."

\* the verification effect runs: the agent starts for the first candidate, and
\* returns at once when the blob or the analysis is missing
StartVerification ==
  LET docId == VerificationEffect(documents, verifyingIds)
      doc == FindDoc(documents, docId)
  IN /\ docId # NoId
     /\ IF docId \notin fileStore \/ ~doc.analysis.present
        THEN UNCHANGED <<verifyingIds, verifiers>>
        ELSE /\ verifyingIds' = Append(verifyingIds, docId)
             /\ verifiers' = Append(verifiers,
                  [docId |-> docId, doc |-> doc, cfg |-> config, pc |-> "extract",
                   verifier |-> "", call |-> IdleCall])
     /\ UNCHANGED <<config, documents, processingQueue, pois, activeAgentsCount, fileStore,
                    agents, db, mountDocs, loading, staged, wiping, nextId>>

\* a catch block that leaves the document in the status it had
CatchStatus_Unresolved == "verifying"

\* the catch block of the verification agent: updateDocStatus(docId, 'completed')
CatchStatus == "completed"

\* the agent ends and the .then of the effect takes its id off verifyingIds:
\* saved is TRUE for the regular end, FALSE for the catch block
VerifierEnds(i, saved, updatedDoc) ==
  LET v == verifiers[i]
  IN /\ verifiers' = RemoveAt(verifiers, i)
     /\ verifyingIds' = FilterSeq(verifyingIds, Range(verifyingIds) \ {v.docId})
     /\ IF saved
        THEN /\ db' = saveDocument(db, updatedDoc)
             /\ documents' = ReplaceDoc(documents, v.docId, updatedDoc)
        ELSE /\ documents' = updateDocStatus(documents, v.docId, CatchStatus)
             /\ UNCHANGED db
     /\ UNCHANGED <<config, processingQueue, pois, activeAgentsCount, fileStore, agents,
                    mountDocs, loading, staged, wiping, nextId>>

\* processPdf settles in the verification agent
VerifyExtractDone(i, ok) ==
  LET v == verifiers[i]
  IN /\ v.pc = "extract"
     /\ IF ~ok \/ ~v.doc.analysis.hasEntities
        THEN VerifierEnds(i, FALSE, v.doc)
        ELSE IF v.cfg.dualCheckMode /\ HasHighValueTarget(v.doc.analysis)
        THEN /\ verifiers' = [verifiers EXCEPT ![i].pc = "verify",
                                               ![i].verifier = ChooseVerifier(v.cfg),
                                               ![i].call = PendingCall]
             /\ UNCHANGED <<config, documents, processingQueue, pois, activeAgentsCount,
                            verifyingIds, fileStore, agents, db, mountDocs, loading, staged,
                            wiping, nextId>>
        ELSE VerifierEnds(i, TRUE, [v.doc EXCEPT !.status = "completed"])

\* the backend of the verifier's call responds
VerifierResponds(i, resp) ==
  LET v == verifiers[i]
      call == ProviderStep(v.verifier, v.call, resp)
      name == HighValueTarget(v.doc.analysis).name
      confirmed == Len(call.data.entities) > 0
      updatedDoc ==
        [v.doc EXCEPT
           !.analysis.summary = @ \o (IF confirmed THEN ConfirmText(v.verifier, name)
                                      ELSE DenyText(v.verifier, name)),
           !.lineage = IF confirmed THEN Append(@, "Verified by " \o v.verifier) ELSE @,
           !.status = "completed"]
  IN /\ v.pc = "verify"
     /\ IF ~Settled(call)
        THEN /\ verifiers' = [verifiers EXCEPT ![i].call = call]
             /\ UNCHANGED <<config, documents, processingQueue, pois, activeAgentsCount,
                            verifyingIds, fileStore, agents, db, mountDocs, loading, staged,
                            wiping, nextId>>
        ELSE IF call.st = "rejected" \/ ~call.data.hasEntities
        THEN VerifierEnds(i, FALSE, v.doc)
        ELSE VerifierEnds(i, TRUE, updatedDoc)

(***************************************************************************)
(* Specifications                                                          *)
(***************************************************************************)
\* the scheduler specification: MaxDocs documents, one throwing provider,
\* dual-check on, backends that answer with or without a notable entity or fail
SchedConfigs == {MkConfig(DefaultPriority, {"openrouter"}, FALSE, TRUE, "auto")}

SchedResponses ==
  {[kind |-> "ok", raw |-> RawPlain], [kind |-> "ok", raw |-> RawSenator],
   [kind |-> "permanent", raw |-> NoAnalysis]}

Init == InitWith(SchedConfigs, {<<>>}, {FALSE})

Next ==
  \/ \E k \in 1..MaxBatch : UploadRead(k, MaxDocs)
  \/ UploadCommit
  \/ restartAnalysis
  \/ ResetArchiveBegin
  \/ ResetArchiveEnd
  \/ StartAgent
  \/ \E i \in 1..Len(agents) : \E ok \in BOOLEAN : ExtractDone(i, ok)
  \/ \E i \in 1..Len(agents) : \E k \in 1..Len(agents[i].calls) :
       \E resp \in SchedResponses : BackendResponds(i, k, resp)
  \/ StartVerification
  \/ \E i \in 1..Len(verifiers) : \E ok \in BOOLEAN : VerifyExtractDone(i, ok)
  \/ \E i \in 1..Len(verifiers) : \E resp \in SchedResponses : VerifierResponds(i, resp)

Spec == Init /\ [][Next]_vars

\* the policy specification: one uploaded document, every configuration that
\* SettingsView.save accepts over the two priority orders, every backend answer
PolicyConfigs ==
  {c \in {MkConfig(p, e, par, d, v) :
            p \in {DefaultPriority, ReversePriority},
            e \in {s \in SUBSET Providers : SaveAccepts(s) /\ Cardinality(s) <= MaxChain},
            par \in BOOLEAN, d \in BOOLEAN, v \in {"auto", "lmstudio"}} :
     c.dualCheckMode \/ c.preferredVerifier = "auto"}

PolicyInit == InitWith(PolicyConfigs, {<<>>}, {FALSE})

PolicyNext ==
  \/ \E k \in 1..MaxBatch : UploadRead(k, 1)
  \/ UploadCommit
  \/ restartAnalysis
  \/ ResetArchiveBegin
  \/ ResetArchiveEnd
  \/ StartAgent
  \/ \E i \in 1..Len(agents) : \E ok \in BOOLEAN : ExtractDone(i, ok)
  \/ \E i \in 1..Len(agents) : \E k \in 1..Len(agents[i].calls) :
       \E resp \in BackendResponses : BackendResponds(i, k, resp)
  \/ StartVerification
  \/ \E i \in 1..Len(verifiers) : \E ok \in BOOLEAN : VerifyExtractDone(i, ok)
  \/ \E i \in 1..Len(verifiers) : \E resp \in BackendResponses : VerifierResponds(i, resp)

PolicySpec == PolicyInit /\ [][PolicyNext]_vars

\* the merge specification: one uploaded document under the parallel policy,
\* two throwing providers in both priority orders or three of them, backends
\* that answer with up to MaxEntities entities or fail
MergeConfigs ==
  {MkConfig(DefaultPriority, {"openrouter", "lmstudio"}, TRUE, FALSE, "auto"),
   MkConfig(ReversePriority, {"openrouter", "lmstudio"}, TRUE, FALSE, "auto"),
   MkConfig(DefaultPriority, {"openrouter", "lmstudio", "lmstudio2"}, TRUE, FALSE, "auto")}

MergeResponses ==
  {[kind |-> "ok", raw |-> r] : r \in MergeAnswers}
    \cup {[kind |-> "permanent", raw |-> NoAnalysis]}

MergeInit == InitWith(MergeConfigs, {<<>>}, {FALSE})

MergeNext ==
  \/ \E k \in 1..MaxBatch : UploadRead(k, 1)
  \/ UploadCommit
  \/ StartAgent
  \/ \E i \in 1..Len(agents) : \E ok \in BOOLEAN : ExtractDone(i, ok)
  \/ \E i \in 1..Len(agents) : \E k \in 1..Len(agents[i].calls) :
       \E resp \in MergeResponses : BackendResponds(i, k, resp)

MergeSpec == MergeInit /\ [][MergeNext]_vars

\* the verification specification: dual-check on, a record left in verifying by
\* an earlier session or none, one upload, and fairness for what the event
\* loop runs by itself: the verification effect, the awaits of the
\* verification agent, and the await of the wipe
LiveConfigs ==
  {MkConfig(DefaultPriority, e, FALSE, TRUE, "auto") : e \in {{"gemini"}, {"openrouter"}}}

LiveResponses ==
  {[kind |-> "ok", raw |-> RawPlain], [kind |-> "ok", raw |-> RawFamous],
   [kind |-> "transient", raw |-> NoAnalysis], [kind |-> "permanent", raw |-> NoAnalysis]}

LiveInit == InitWith(LiveConfigs, StoredChoices, {TRUE})

LiveNext ==
  \/ LoadDocs
  \/ \E k \in 1..MaxBatch : UploadRead(k, 1)
  \/ UploadCommit
  \/ restartAnalysis
  \/ ResetArchiveBegin
  \/ ResetArchiveEnd
  \/ StartAgent
  \/ \E i \in 1..Len(agents) : \E ok \in BOOLEAN : ExtractDone(i, ok)
  \/ \E i \in 1..Len(agents) : \E k \in 1..Len(agents[i].calls) :
       \E resp \in LiveResponses : BackendResponds(i, k, resp)
  \/ StartVerification
  \/ \E i \in 1..Len(verifiers) : \E ok \in BOOLEAN : VerifyExtractDone(i, ok)
  \/ \E i \in 1..Len(verifiers) : \E resp \in LiveResponses : VerifierResponds(i, resp)

LiveFairness ==
  /\ WF_vars(StartVerification)
  /\ WF_vars(ResetArchiveEnd)
  /\ \A i \in 1..MAX_VERIFYING :
       /\ WF_vars(i <= Len(verifiers) /\ \E ok \in BOOLEAN : VerifyExtractDone(i, ok))
       /\ WF_vars(i <= Len(verifiers) /\ \E resp \in LiveResponses : VerifierResponds(i, resp))

LiveSpec == LiveInit /\ [][LiveNext]_vars /\ LiveFairness

\* the tracked-subject specification: two uploaded documents under the
\* sequential policy with one throwing provider, dual-check off, backends that
\* answer with up to MaxEntities entities (one name in two spellings) or fail
PoiConfigs == {MkConfig(DefaultPriority, {"openrouter"}, FALSE, FALSE, "auto")}

\* the entities a backend reports in the tracked-subject specification: one
\* person relevant by the role in both spellings, one relevant in one spelling
\* and promoted in the other only once tracked
PoiEntities ==
  {[name |-> "Jane Doe", role |-> "Associate", context |-> "c1", isFamous |-> FALSE],
   [name |-> "JANE DOE", role |-> "Pilot", context |-> "c2", isFamous |-> TRUE],
   [name |-> "Bob", role |-> "Witness", context |-> "c3", isFamous |-> FALSE],
   [name |-> "BOB", role |-> "Witness", context |-> "c5", isFamous |-> FALSE]}

PoiResponses ==
  {[kind |-> "ok", raw |-> MergeAnswer(es)] :
     es \in UNION {[1..n -> PoiEntities] : n \in 0..MaxEntities}}
    \cup {[kind |-> "permanent", raw |-> NoAnalysis]}

PoiInit == InitWith(PoiConfigs, {<<>>}, {FALSE})

PoiNext ==
  \/ \E k \in 1..MaxBatch : UploadRead(k, 2)
  \/ UploadCommit
  \/ restartAnalysis
  \/ ResetArchiveBegin
  \/ ResetArchiveEnd
  \/ StartAgent
  \/ \E i \in 1..Len(agents) : \E ok \in BOOLEAN : ExtractDone(i, ok)
  \/ \E i \in 1..Len(agents) : \E k \in 1..Len(agents[i].calls) :
       \E resp \in PoiResponses : BackendResponds(i, k, resp)

PoiSpec == PoiInit /\ [][PoiNext]_vars

\* the retry specification: two uploaded documents, gemini first in the chain,
\* dual-check on, backends that answer, fail for good or keep answering 429/503,
\* no wipe, and fairness for what the event loop runs by itself: the two
\* effects and the awaits of the two agents
RetryConfigs ==
  {MkConfig(DefaultPriority, e, FALSE, TRUE, "auto") :
     e \in {{"gemini"}, {"gemini", "openrouter"}}}

RetryInit == InitWith(RetryConfigs, {<<>>}, {FALSE})

RetryNext ==
  \/ \E k \in 1..MaxBatch : UploadRead(k, 2)
  \/ UploadCommit
  \/ restartAnalysis
  \/ StartAgent
  \/ \E i \in 1..Len(agents) : \E ok \in BOOLEAN : ExtractDone(i, ok)
  \/ \E i \in 1..Len(agents) : \E k \in 1..Len(agents[i].calls) :
       \E resp \in LiveResponses : BackendResponds(i, k, resp)
  \/ StartVerification
  \/ \E i \in 1..Len(verifiers) : \E ok \in BOOLEAN : VerifyExtractDone(i, ok)
  \/ \E i \in 1..Len(verifiers) : \E resp \in LiveResponses : VerifierResponds(i, resp)

RetryFairness ==
  /\ WF_vars(StartAgent)
  /\ WF_vars(StartVerification)
  /\ \A i \in 1..MAX_CONCURRENT_AGENTS :
       /\ WF_vars(i <= Len(agents) /\ \E ok \in BOOLEAN : ExtractDone(i, ok))
       /\ WF_vars(i <= Len(agents) /\ \E k \in 1..Len(agents[i].calls) :
                    \E resp \in LiveResponses : BackendResponds(i, k, resp))
  /\ \A i \in 1..MAX_VERIFYING :
       /\ WF_vars(i <= Len(verifiers) /\ \E ok \in BOOLEAN : VerifyExtractDone(i, ok))
       /\ WF_vars(i <= Len(verifiers) /\ \E resp \in LiveResponses : VerifierResponds(i, resp))

RetrySpec == RetryInit /\ [][RetryNext]_vars /\ RetryFairness

\* the parsing specification: one uploaded document, every provider at the head
\* of a sequential chain and two providers in parallel, backends that answer
\* with JSON, with text that is not JSON, or fail
ParseConfigs ==
  {MkConfig(DefaultPriority, e, FALSE, d, "auto") :
     e \in {{"gemini"}, {"openrouter"}, {"lmstudio"}, {"openrouter", "lmstudio2"}},
     d \in BOOLEAN}
    \cup {MkConfig(DefaultPriority, {"openrouter", "lmstudio"}, TRUE, FALSE, "auto")}

ParseResponses ==
  {[kind |-> "ok", raw |-> RawPlain], Unparseable, [kind |-> "permanent", raw |-> NoAnalysis]}

ParseInit == InitWith(ParseConfigs, {<<>>}, {FALSE})

ParseNext ==
  \/ \E k \in 1..MaxBatch : UploadRead(k, 1)
  \/ UploadCommit
  \/ restartAnalysis
  \/ ResetArchiveBegin
  \/ ResetArchiveEnd
  \/ StartAgent
  \/ \E i \in 1..Len(agents) : \E ok \in BOOLEAN : ExtractDone(i, ok)
  \/ \E i \in 1..Len(agents) : \E k \in 1..Len(agents[i].calls) :
       \E resp \in ParseResponses : BackendResponds(i, k, resp)

ParseSpec == ParseInit /\ [][ParseNext]_vars

\* the configuration the migration of the initializer builds from a stored
\* state of an earlier version that has no config: no provider is enabled
MigratedConfig == MkConfig(DefaultPriority, {}, FALSE, FALSE, "auto")

\* the configuration of a first start: gemini alone is enabled
DefaultConfig == MkConfig(DefaultPriority, {"gemini"}, FALSE, FALSE, "auto")

\* the start-up specification: the component mounts with the default or the
\* migrated configuration, up to MaxDocs documents are uploaded and analysed
MountConfigs == {DefaultConfig, MigratedConfig}

MountInit == InitWith(MountConfigs, {<<>>}, {FALSE})

MountNext ==
  \/ \E k \in 1..MaxBatch : UploadRead(k, MaxDocs)
  \/ UploadCommit
  \/ restartAnalysis
  \/ StartAgent
  \/ \E i \in 1..Len(agents) : \E ok \in BOOLEAN : ExtractDone(i, ok)
  \/ \E i \in 1..Len(agents) : \E k \in 1..Len(agents[i].calls) :
       \E resp \in SchedResponses : BackendResponds(i, k, resp)

MountSpec == MountInit /\ [][MountNext]_vars

\* the recovery specification: one uploaded document, openrouter or lmstudio
\* alone under the sequential policy, backends that answer with a text: a JSON
\* object, bare or fenced, with or without commentary around it, or prose
Objects ==
  {<<"{", "M", "}">>,
   <<"{", "M", "Mo", "T", "Mc", "}">>,
   <<"{", "M", "Mo", "F", "Mc", "}">>}

Leads == {<<>>, <<"T">>, <<"<think>", "T", "</think>", "T">>}

Trails == {<<>>, <<"T">>}

Tags == {<<>>, <<"J">>}

\* commentary, a fence with or without the json tag, the object, a fence,
\* commentary
Wrap(lead, tag, obj, trail) == lead \o <<"F">> \o tag \o obj \o <<"F">> \o trail

FencedTexts ==
  {Wrap(lead, tag, obj, trail) :
     lead \in Leads, tag \in Tags, obj \in Objects, trail \in Trails}

BareTexts == {lead \o obj : lead \in Leads, obj \in Objects} \cup {<<"T">>}

TextResponses == {[kind |-> "text", text |-> t] : t \in FencedTexts \cup BareTexts}

RecoverConfigs ==
  {MkConfig(DefaultPriority, e, FALSE, FALSE, "auto") : e \in {{"openrouter"}, {"lmstudio"}}}

RecoverInit == InitWith(RecoverConfigs, {<<>>}, {FALSE})

RecoverNext ==
  \/ \E k \in 1..MaxBatch : UploadRead(k, 1)
  \/ UploadCommit
  \/ restartAnalysis
  \/ StartAgent
  \/ \E i \in 1..Len(agents) : \E ok \in BOOLEAN : ExtractDone(i, ok)
  \/ \E i \in 1..Len(agents) : \E k \in 1..Len(agents[i].calls) :
       \E resp \in TextResponses : BackendResponds(i, k, resp)

RecoverSpec == RecoverInit /\ [][RecoverNext]_vars

\* the settling specification: two uploaded documents, one provider, no
\* dual-check, a wipe that may fall between an upload's reads and its setState,
\* and fairness for what the event loop runs by itself: the pending setState
\* of an upload, the end of a wipe, the main effect and the awaits of the agents
SettleConfigs ==
  {MkConfig(DefaultPriority, e, FALSE, FALSE, "auto") : e \in {{"gemini"}, {"openrouter"}}}

SettleInit == InitWith(SettleConfigs, {<<>>}, {FALSE})

SettleNext ==
  \/ \E k \in 1..MaxBatch : UploadRead(k, 2)
  \/ UploadCommit
  \/ restartAnalysis
  \/ ResetArchiveBegin
  \/ ResetArchiveEnd
  \/ StartAgent
  \/ \E i \in 1..Len(agents) : \E ok \in BOOLEAN : ExtractDone(i, ok)
  \/ \E i \in 1..Len(agents) : \E k \in 1..Len(agents[i].calls) :
       \E resp \in SchedResponses : BackendResponds(i, k, resp)

SettleFairness ==
  /\ WF_vars(UploadCommit)
  /\ WF_vars(ResetArchiveEnd)
  /\ WF_vars(StartAgent)
  /\ \A i \in 1..MAX_CONCURRENT_AGENTS :
       /\ WF_vars(i <= Len(agents) /\ \E ok \in BOOLEAN : ExtractDone(i, ok))
       /\ WF_vars(i <= Len(agents) /\ \E k \in 1..Len(agents[i].calls) :
                    \E resp \in SchedResponses : BackendResponds(i, k, resp))

SettleSpec == SettleInit /\ [][SettleNext]_vars /\ SettleFairness


(***************************************************************************)
(* Properties of the primary scheduler                                     *)
(***************************************************************************)
AllIds == 0..(MaxDocs + 1)

WorkersOf(id) == {i \in 1..Len(agents) : agents[i].docId = id}

\* C1: at most one primary worker per document id is in flight, and the id
\* of a worker in flight is not in the primary queue, so the next trigger of
\* the scheduler cannot start a second worker for it
C1_OneWorkerPerDocument ==
  \A i \in 1..Len(agents) :
    /\ Cardinality(WorkersOf(agents[i].docId)) = 1
    /\ agents[i].docId \notin Range(processingQueue)

\* a worker is in flight and the scheduler's trigger is armed again
C1_Witness ==
  /\ Len(agents) = 1
  /\ MainEffect(documents, processingQueue, activeAgentsCount) # NoId

\* C2: the number of primary workers in flight never exceeds
\* MAX_CONCURRENT_AGENTS
C2_WorkersWithinMax == Len(agents) <= MAX_CONCURRENT_AGENTS

\* the pool is full while another document waits in the queue
C2_Witness == Len(agents) = MAX_CONCURRENT_AGENTS /\ Len(processingQueue) > 0

\* C3: the active-worker count equals the number of workers in flight and is
\* never negative, whichever exit the workers that ended took
C3_CountMatchesWorkers ==
  activeAgentsCount = Len(agents) /\ activeAgentsCount >= 0

\* no worker runs after one ended in the catch block, one in the state
\* updater and one at the early return (its document is pending, unqueued
\* and without a blob)
C3_Witness ==
  /\ activeAgentsCount = 0
  /\ agents = <<>>
  /\ \E i \in 1..Len(documents) : documents[i].status = "error"
  /\ \E i \in 1..Len(documents) : documents[i].status \in {"completed", "verifying"}
  /\ \E i \in 1..Len(documents) :
       /\ documents[i].status = "pending"
       /\ documents[i].id \notin Range(processingQueue)
       /\ documents[i].id \notin fileStore

ClaimedEdges ==
  {<<"pending", "processing">>, <<"processing", "completed">>,
   <<"processing", "verifying">>, <<"processing", "error">>,
   <<"verifying", "completed">>}

StatusChangesWithin(edges) ==
  \A id \in AllIds :
    (StatusOf(id) # "absent" /\ StatusOf(id)' # "absent" /\ StatusOf(id)' # StatusOf(id))
      => <<StatusOf(id), StatusOf(id)'>> \in edges

C6_FailoverLineage ==
  \A i \in 1..Len(documents) :
    LET d == documents[i]
    IN (/\ d.run.mode = "seq"
        /\ Len(d.run.chain) = 2
        /\ ~config.dualCheckMode
        /\ d.status \in {"completed", "error"}
        /\ d.run.backend[1] = "fail"
        /\ d.run.backend[2] # "fail")
       => (/\ d.status = "completed"
           /\ d.lineage = d.run.chain
           /\ d.analysis.processedBy # d.run.chain[1])

\* C7: under the parallel policy every provider of the chain was called and
\* settled, the document is in error only if no backend call succeeded, and
\* otherwise its lineage holds exactly the providers whose call succeeded
C7_ParallelLineage ==
  \A i \in 1..Len(documents) :
    LET d == documents[i]
        ok == {k \in 1..Len(d.run.chain) : d.run.backend[k] = "ok"}
    IN (d.run.mode = "par" /\ d.status \in {"completed", "verifying", "error"})
       => (/\ \A k \in 1..Len(d.run.chain) : d.run.settled[k] \in {"fulfilled", "rejected"}
           /\ d.status = "error" => ok = {}
           /\ d.status # "error" =>
                Range(d.lineage) \cap Providers = {d.run.chain[k] : k \in ok})

\* C10: a document in status completed or verifying carries an analysis whose
\* summary is not empty
C10_SummaryNonEmpty ==
  \A i \in 1..Len(documents) :
    documents[i].status \in {"completed", "verifying"}
      => (documents[i].analysis.present /\ documents[i].analysis.summary # "")

(***************************************************************************)
(* Properties of the swarm consensus                                       *)
(***************************************************************************)
\* C8: in a document merged by the parallel policy, every reported name has
\* one merged entity; when two or more distinct providers reported the name
\* (compared without case) the entity is notable and its context carries the
\* [SWARM CONFIRMED] tag whatever flags were reported; when one provider
\* reported it the entity has the context, untagged, and the flag of a report
\* of that provider
C8_ConsensusMarksNotable ==
  \A i \in 1..Len(documents) :
    LET d == documents[i]
        rs == d.run.results
        reports == UNION {{<<a, b>> : b \in 1..Len(rs[a].data.entities)} : a \in 1..Len(rs)}
        Report(q) == rs[q[1]].data.entities[q[2]]
        Key(q) == ToLowerCase(Report(q).name)
        Reporters(key) == {rs[q[1]].provider : q \in {r \in reports : Key(r) = key}}
        merged == d.analysis.entities
    IN (d.run.mode = "par" /\ d.status \in {"completed", "verifying"})
       => \A p \in reports :
            LET ms == {k \in 1..Len(merged) : ToLowerCase(merged[k].name) = Key(p)}
            IN /\ Cardinality(ms) = 1
               /\ \A k \in ms :
                    IF Cardinality(Reporters(Key(p))) >= 2
                    THEN /\ merged[k].isFamous
                         /\ \E q \in reports :
                              /\ Key(q) = Key(p)
                              /\ merged[k].context = "[SWARM CONFIRMED]: " \o Report(q).context
                    ELSE \E q \in reports :
                           /\ Key(q) = Key(p)
                           /\ merged[k].context = Report(q).context
                           /\ merged[k].isFamous = Report(q).isFamous

\* three providers answered, two of them reported the same name and none
\* flagged it, the third reported another name: the merged document holds a
\* notable entity with two sources and an entity with one source
C8_Witness ==
  \E i \in 1..Len(documents) :
    LET d == documents[i]
        rs == d.run.results
    IN /\ d.run.mode = "par" /\ d.status = "completed" /\ Len(rs) = 3
       /\ \A a \in 1..Len(rs) : \A b \in 1..Len(rs[a].data.entities) :
            ~rs[a].data.entities[b].isFamous
       /\ \E k \in 1..Len(d.analysis.entities) :
            Cardinality(d.analysis.entities[k].sources) = 2 /\ d.analysis.entities[k].isFamous
       /\ \E k \in 1..Len(d.analysis.entities) :
            Cardinality(d.analysis.entities[k].sources) = 1

\* C9: for a document merged from two successful results, merging them in the
\* chain's order and in the opposite order gives the same set of entities
\* (name, role, context, flag), the same set of key insights and the same set
\* of flagged subjects, and the document holds the merge in the chain's order
\* whichever call completed first
C9_MergeOrderIndependent ==
  \A i \in 1..Len(documents) :
    LET d == documents[i]
        rs == d.run.results
        ab == SwarmMerge(rs)
        ba == SwarmMerge([k \in 1..Len(rs) |-> rs[Len(rs) + 1 - k]])
        View(e) == [name |-> e.name, role |-> e.role, context |-> e.context,
                    isFamous |-> e.isFamous]
        Views(es) == {View(es[k]) : k \in 1..Len(es)}
    IN (d.run.mode = "par" /\ d.status \in {"completed", "verifying"} /\ Len(rs) = 2)
       => /\ Views(ab.entities) = Views(ba.entities)
          /\ Range(ab.keyInsights) = Range(ba.keyInsights)
          /\ Range(ab.flaggedPOIs) = Range(ba.flaggedPOIs)
          /\ d.analysis.entities = ab.entities
          /\ d.analysis.keyInsights = ab.keyInsights
          /\ d.analysis.flaggedPOIs = ab.flaggedPOIs

(***************************************************************************)
(* Properties of the verification pass                                     *)
(***************************************************************************)
\* C5: under fair scheduling, a document in status verifying eventually is in
\* status completed
C5_VerifyingReachesCompleted ==
  \A id \in AllIds : (StatusOf(id) = "verifying") ~> (StatusOf(id) = "completed")

\* C5 (amended): under fair scheduling, a document in status verifying
\* eventually is in status completed or is no longer in the document list
C5_CompletedOrRemoved ==
  \A id \in AllIds :
    (StatusOf(id) = "verifying") ~> (StatusOf(id) = "completed" \/ ~HasDoc(documents, id))

\* a verification pass confirmed its target and completed the document
C5_Witness ==
  \E i \in 1..Len(documents) :
    /\ documents[i].status = "completed"
    /\ Len(documents[i].lineage) > 0
    /\ documents[i].lineage[Len(documents[i].lineage)]
         \in {"Verified by " \o p : p \in Providers}

(***************************************************************************)
(* Properties of failure handling in the policies                          *)
(***************************************************************************)
\* C11: under the sequential policy, a document whose run found the backend
\* call of every provider of the chain failed is in status error and holds no
\* analysis
C11_AllFailedGivesError ==
  \A i \in 1..Len(documents) :
    LET d == documents[i]
    IN (/\ d.run.mode = "seq"
        /\ d.status \in {"completed", "verifying", "error"}
        /\ \A k \in 1..Len(d.run.chain) : d.run.backend[k] = "fail")
       => (d.status = "error" /\ ~d.analysis.present)

\* the analysis a primary run produced, if its policy produced one
PrimaryAnalysis(run) ==
  IF run.results = <<>> THEN NoAnalysis
  ELSE IF run.mode = "par"
       THEN IF MergeThrows(run.results) THEN NoAnalysis ELSE SwarmMerge(run.results)
       ELSE run.results[Len(run.results)].data

\* C12: when a primary run that produced an analysis ends, the document goes to
\* verifying if dual-check is on and the analysis has an entity that is notable
\* or has a sensitive role, and to completed in every other case
C12_VerifyingIffHighValue ==
  [][\A id \in AllIds :
       (/\ StatusOf(id) = "processing"
        /\ HasDoc(documents', id)
        /\ FindDoc(documents', id).status \in {"completed", "verifying", "error"}
        /\ PrimaryAnalysis(FindDoc(documents', id).run).present)
       => FindDoc(documents', id).status =
            IF config.dualCheckMode
               /\ HasHighValueTarget(PrimaryAnalysis(FindDoc(documents', id).run))
            THEN "verifying" ELSE "completed"]_vars

\* C13: when a verification pass completes a document and writes its outcome to
\* the summary, it also appends one entry to the lineage
C13_OutcomeInSummaryAndLineage ==
  [][\A id \in AllIds :
       (/\ StatusOf(id) = "verifying"
        /\ HasDoc(documents', id)
        /\ FindDoc(documents', id).status = "completed"
        /\ FindDoc(documents', id).analysis.summary # FindDoc(documents, id).analysis.summary)
       => Len(FindDoc(documents', id).lineage) = Len(FindDoc(documents, id).lineage) + 1]_vars

(***************************************************************************)
(* Properties of the two worker pools                                      *)
(***************************************************************************)
\* C14: whenever the primary queue is not empty and fewer than
\* MAX_CONCURRENT_AGENTS primary workers run, the main effect dispatches the
\* head of the queue, whatever is being verified or waits for verification
C14_VerificationNeverBlocksPrimary ==
  (processingQueue # <<>> /\ activeAgentsCount < MAX_CONCURRENT_AGENTS)
    => MainEffect(documents, processingQueue, activeAgentsCount) = processingQueue[1]

\* the verification pool is full while a queued document can be dispatched
C14_Witness ==
  /\ Len(verifiers) = MAX_VERIFYING
  /\ processingQueue # <<>>
  /\ MainEffect(documents, processingQueue, activeAgentsCount) = processingQueue[1]

\* C15: at most MAX_VERIFYING verification workers are in flight, whatever the
\* number of primary workers, and no document id has two of them
C15_VerifiersWithinMax ==
  /\ Len(verifiers) <= MAX_VERIFYING
  /\ Len(verifyingIds) = Len(verifiers)
  /\ \A id \in AllIds : Cardinality({i \in 1..Len(verifiers) : verifiers[i].docId = id}) <= 1

\* the verification pool is full, a third document waits in status verifying
C15_Witness ==
  /\ Len(verifiers) = MAX_VERIFYING
  /\ \E i \in 1..Len(documents) :
       documents[i].status = "verifying" /\ documents[i].id \notin Range(verifyingIds)

(***************************************************************************)
(* Properties of the tracked subjects                                      *)
(***************************************************************************)
\* C16: no two tracked subjects have names that are equal ignoring case
C16_SubjectsUniqueByName ==
  \A a \in 1..Len(pois) : \A b \in 1..Len(pois) :
    a # b => ToLowerCase(pois[a].name) # ToLowerCase(pois[b].name)

\* a completed document lists one name in two spellings and the name is tracked
C16_Witness ==
  \E i \in 1..Len(documents) :
    LET es == documents[i].analysis.entities
    IN /\ documents[i].status = "completed"
       /\ \E a \in 1..Len(es) : \E b \in 1..Len(es) :
            /\ es[a].name # es[b].name
            /\ ToLowerCase(es[a].name) = ToLowerCase(es[b].name)
            /\ PoiIndex(pois, es[a].name) # {}

\* C17: every tracked subject holds at most one mention per document id, and
\* aggregating the analysis of a finished document a second time changes nothing
C17_OneMentionPerDocument ==
  /\ \A k \in 1..Len(pois) : \A a \in 1..Len(pois[k].mentions) :
       \A b \in 1..Len(pois[k].mentions) :
         a # b => pois[k].mentions[a].docId # pois[k].mentions[b].docId
  /\ \A i \in 1..Len(documents) :
       documents[i].status = "completed" =>
         LET once == AggregatePois(pois, documents[i].analysis.entities, documents[i].id)
         IN AggregatePois(once, documents[i].analysis.entities, documents[i].id) = once

\* a completed document lists a tracked name twice and the subject has its one
\* mention of the document
C17_Witness ==
  \E i \in 1..Len(documents) :
    LET es == documents[i].analysis.entities
    IN /\ documents[i].status = "completed"
       /\ Len(es) > 1
       /\ ToLowerCase(es[1].name) = ToLowerCase(es[2].name)
       /\ \E k \in PoiIndex(pois, es[1].name) :
            Cardinality({m \in 1..Len(pois[k].mentions) :
                           pois[k].mentions[m].docId = documents[i].id}) = 1

(***************************************************************************)
(* Properties of the provider calls                                        *)
(***************************************************************************)
\* C18: a call never makes more than maxAttempts attempts, and under fair
\* scheduling a document in status processing eventually is completed or in
\* error
C18_BoundedRetry ==
  /\ [](\A i \in 1..Len(agents) : \A k \in 1..Len(agents[i].calls) :
          /\ agents[i].calls[k].attempts <= maxAttempts
          /\ agents[i].calls[k].st = "pending" => agents[i].calls[k].attempts < maxAttempts)
  /\ \A id \in AllIds :
       (StatusOf(id) = "processing") ~> (StatusOf(id) \in {"completed", "error"})

\* a document is completed after its call gave up on the third 429/503
C18_Witness ==
  \E i \in 1..Len(documents) :
    /\ documents[i].status = "completed"
    /\ documents[i].run.attempts = <<maxAttempts>>
    /\ documents[i].analysis.summary = GeminiDegraded.summary

\* C19: for every provider, a call in flight that receives a rate-limit or
\* unavailable error before its last attempt stays in flight (is retried), and
\* one that receives any other error is rejected to the policy at once
C19_TransientRetriedPermanentRaised ==
  \A i \in 1..Len(agents) : \A k \in 1..Len(agents[i].calls) :
    LET p == agents[i].chain[k]
        c == agents[i].calls[k]
    IN c.st = "pending" =>
         /\ c.attempts + 1 < maxAttempts =>
              ProviderStep(p, c, [kind |-> "transient", raw |-> NoAnalysis]).st = "pending"
         /\ ProviderStep(p, c, [kind |-> "permanent", raw |-> NoAnalysis]).st = "rejected"

\* C20: for every provider, a call whose backend answered with text that is not
\* JSON is fulfilled with a result that has the text as summary and every
\* structured field empty
C20_UnparseableGivesDegraded ==
  \A i \in 1..Len(documents) :
    LET d == documents[i]
    IN d.status \in {"completed", "verifying", "error"} =>
         \A k \in 1..Len(d.run.chain) :
           d.run.backend[k] = "unparsed" =>
             /\ d.run.settled[k] = "fulfilled"
             /\ \E r \in 1..Len(d.run.results) :
                  /\ d.run.results[r].provider = d.run.chain[k]
                  /\ d.run.results[r].data.summary = RawText
                  /\ d.run.results[r].data.entities = <<>>
                  /\ d.run.results[r].data.keyInsights = <<>>
                  /\ d.run.results[r].data.flaggedPOIs = <<>>

(***************************************************************************)
(* Properties of configuration, persistence and ordering                   *)
(***************************************************************************)
\* C21: while no provider is enabled, no document id is in the primary queue,
\* no worker is in flight and every document in the list is in status error
C21_NoProviderFailsBeforeQueueing ==
  ActiveChain(config) = <<>> =>
    /\ processingQueue = <<>>
    /\ agents = <<>>
    /\ \A i \in 1..Len(documents) : documents[i].status = "error"

\* C22: every document that has left status pending has a record in the store
\* with the same status, analysis and lineage as the record in memory
C22_StoreMatchesMemory ==
  \A i \in 1..Len(documents) :
    documents[i].status # "pending" =>
      \E r \in db : /\ r.id = documents[i].id
                    /\ r.status = documents[i].status
                    /\ r.analysis = documents[i].analysis
                    /\ r.lineage = documents[i].lineage

\* C23: a worker that ends in error leaves the tracked subjects as they were;
\* retry-all leaves them as they were and puts every document in status error
\* in the queue; and no id is in the queue twice
C23_RetryKeepsSubjects ==
  [][/\ \A id \in AllIds :
          (StatusOf(id) = "processing" /\ HasDoc(documents', id)
           /\ FindDoc(documents', id).status = "error") => pois' = pois
     /\ (processingQueue' # processingQueue /\ documents' = documents
         /\ Len(processingQueue') >= Len(processingQueue))
          => /\ pois' = pois
             /\ \A i \in 1..Len(documents) :
                  documents[i].status = "error" => documents[i].id \in Range(processingQueue')
     /\ \A a \in 1..Len(processingQueue') : \A b \in 1..Len(processingQueue') :
          a # b => processingQueue'[a] # processingQueue'[b]]_vars

\* a failed document is back in the queue while subjects of a successful run
\* are tracked
C23_Witness ==
  /\ pois # <<>>
  /\ \E i \in 1..Len(documents) :
       documents[i].status = "error" /\ documents[i].id \in Range(processingQueue)

IsPrefix(s, t) == Len(s) <= Len(t) /\ SubSeq(t, 1, Len(s)) = s

\* C24: the primary queue is first-in first-out: a step either appends ids
\* behind the ones that wait or takes the head of the queue, and a worker that
\* starts is the worker of the id that was at the head
C24_QueueIsFifo ==
  [][/\ \/ IsPrefix(processingQueue, processingQueue')
        \/ processingQueue # <<>> /\ processingQueue' = Tail(processingQueue)
     /\ Len(agents') > Len(agents) =>
          /\ processingQueue # <<>>
          /\ agents'[Len(agents')].docId = processingQueue[1]
          /\ processingQueue' = Tail(processingQueue)]_vars

\* a failed document was re-queued behind a later upload and a worker runs
C24_Witness ==
  /\ Len(processingQueue) >= 2
  /\ processingQueue[1] > processingQueue[2]
  /\ agents # <<>>

\* C25: the analysis stored by a parallel merge names in processedBy every
\* provider whose result went into the merge, as the merged object does
C25_ProcessedByNamesContributors ==
  \A i \in 1..Len(documents) :
    LET d == documents[i]
    IN (d.run.mode = "par" /\ d.status \in {"completed", "verifying"})
       => d.analysis.processedBy = SwarmMerge(d.run.results).processedBy

\* C26: a call whose backend answered with commentary, a fenced JSON object and
\* commentary is fulfilled, and the object its provider recovered is the
\* fenced object
C26_FencedObjectRecovered ==
  \A i \in 1..Len(documents) :
    LET d == documents[i]
    IN d.status \in {"completed", "error"} =>
         \A k \in 1..Len(d.run.texts) :
           \A lead \in Leads : \A tag \in Tags : \A obj \in Objects : \A trail \in Trails :
             d.run.texts[k] = Wrap(lead, tag, obj, trail)
               => d.run.settled[k] = "fulfilled" /\ d.run.parsed[k] = obj

\* C27: every id in the primary queue is the id of a document in the list
C27_QueuedIdsHaveDocuments ==
  \A k \in 1..Len(processingQueue) : HasDoc(documents, processingQueue[k])

\* C28: while the document list is empty and no wipe is under way, the tracked
\* subjects and the record store are empty; every mention of a tracked subject
\* and every stored record belongs to a document in the list
C28_WipeLeavesNothingBehind ==
  /\ (documents = <<>> /\ ~wiping) => (pois = <<>> /\ db = {})
  /\ \A k \in 1..Len(pois) : \A m \in 1..Len(pois[k].mentions) :
       HasDoc(documents, pois[k].mentions[m].docId)
  /\ \A r \in db : HasDoc(documents, r.id)

\* C29: for every document completed under the sequential policy, lineage is a
\* non-empty prefix of the chain its run read, the last provider of lineage is
\* the one whose result is the stored analysis, and processedBy names it
C29_SequentialLineage ==
  \A i \in 1..Len(documents) :
    LET d == documents[i]
        last == d.lineage[Len(d.lineage)]
    IN (d.status = "completed" /\ d.run.mode = "seq") =>
         /\ d.lineage # <<>>
         /\ IsPrefix(d.lineage, d.run.chain)
         /\ d.run.results # <<>>
         /\ d.run.results[Len(d.run.results)].provider = last
         /\ d.analysis.processedBy = last

\* C30: under fair scheduling and provider calls that settle, every document in
\* the list eventually is completed or in error, or at least is no longer in
\* the list (wiped)
C30_UploadedReachesTerminal ==
  \A id \in AllIds :
    HasDoc(documents, id) ~>
      (StatusOf(id) \in {"completed", "error"} \/ ~HasDoc(documents, id))

====
